---- MODULE Spec2Model ----
(***************************************************************************)
(* RepoTree: the repository-tree generator component                       *)
(* (src/app/generator/repo-tree-generator.tsx) together with the tree      *)
(* builder, the renderer and the URL validation of                         *)
(* src/app/repo-structure.tsx.                                             *)
(*                                                                         *)
(* A JavaScript string is a sequence of one-character strings.  A          *)
(* DirectoryMap (a JavaScript Map, which iterates in insertion order) is a *)
(* sequence of [key, value] records; a value is either FileNode, the       *)
(* object {type: 'file'}, or MapNode(children), a nested Map.              *)
(***************************************************************************)
EXTENDS Integers, Sequences, FiniteSets, TLC

VARIABLES
    tree,          \* the flat listing handed to generateStructure
    structureMap,  \* useState<DirectoryMap>(new Map())
    searchTerm,    \* useState('')
    repoUrl,       \* useState('')
    loading,       \* useState(false)
    validation,    \* useState<ValidationError>({message: '', isError: false})
    lastRepoUrl,   \* localStorage item 'lastRepoUrl'
    pending,       \* calls of handleFetchStructure suspended at an await
    consoleError,  \* what console.error logged last
    lastAction,    \* history: the handler that ran last
    sinceClear     \* history: what has happened since the input was cleared

vars == <<tree, structureMap, searchTerm, repoUrl, loading, validation,
          lastRepoUrl, pending, consoleError, lastAction, sinceClear>>

----------------------------------------------------------------------------
(* Strings *)

Slash == "/"
NewLine == "\n"

UpperCase == <<"A","B","C","D","E","F","G","H","I","J","K","L","M",
               "N","O","P","Q","R","S","T","U","V","W","X","Y","Z">>
LowerCase == <<"a","b","c","d","e","f","g","h","i","j","k","l","m",
               "n","o","p","q","r","s","t","u","v","w","x","y","z">>
Digits == {"0","1","2","3","4","5","6","7","8","9"}

Range(s) == {s[i] : i \in DOMAIN s}

\* String.prototype.toLowerCase
LowerChar(c) ==
    IF \E i \in DOMAIN UpperCase : UpperCase[i] = c
    THEN LowerCase[CHOOSE i \in DOMAIN UpperCase : UpperCase[i] = c]
    ELSE c

ToLowerCase(s) == [i \in DOMAIN s |-> LowerChar(s[i])]

\* String.prototype.includes
Includes(s, t) ==
    \E i \in 0..(Len(s) - Len(t)) : SubSeq(s, i + 1, i + Len(t)) = t

\* String.prototype.split('/')
RECURSIVE Split(_)
SplitOther(s) == <<s>>
Split(s) ==
    IF \E i \in DOMAIN s : s[i] = Slash
    THEN LET i == CHOOSE k \in DOMAIN s :
                      s[k] = Slash /\ \A j \in 1..(k - 1) : s[j] # Slash
         IN  <<SubSeq(s, 1, i - 1)>> \o Split(SubSeq(s, i + 1, Len(s)))
    ELSE <<s>>

----------------------------------------------------------------------------
(* DirectoryMap = Map<string, DirectoryMap | { type: 'file' }> *)

FileNode == [type |-> "file", children |-> <<>>]
MapNode(children) == [type |-> "map", children |-> children]
IsMap(value) == value.type = "map"
IsFile(value) == value.type = "file"
EmptyMap == <<>>

Has(map, key) == \E i \in DOMAIN map : map[i].key = key
IndexOf(map, key) == CHOOSE i \in DOMAIN map : map[i].key = key
Get(map, key) == map[IndexOf(map, key)].value

\* a Map that moved an overwritten key to the end of its iteration order
SetMovesKey(map, key, value) ==
    SelectSeq(map, LAMBDA e : e.key # key) \o <<[key |-> key, value |-> value]>>

\* a Map that puts a new key in front of the keys it has
SetAtFront(map, key, value) ==
    IF Has(map, key)
    THEN [map EXCEPT ![IndexOf(map, key)].value = value]
    ELSE <<[key |-> key, value |-> value]>> \o map

\* Map.prototype.set: an existing key keeps its position
Set(map, key, value) ==
    IF Has(map, key)
    THEN [map EXCEPT ![IndexOf(map, key)].value = value]
    ELSE Append(map, [key |-> key, value |-> value])

----------------------------------------------------------------------------
(* generateStructure *)

\* the body of parts.forEach, from index on, on the level currentLevel
RECURSIVE WalkParts(_, _, _, _)
WalkParts(currentLevel, parts, index, type) ==
    IF index > Len(parts)
    THEN currentLevel
    ELSE LET part == parts[index]
             created == IF ~Has(currentLevel, part)
                        THEN Set(currentLevel, part, MapNode(EmptyMap))
                        ELSE currentLevel
             level == IF index = Len(parts) /\ type = "blob"
                      THEN Set(created, part, FileNode)
                      ELSE created
             next == Get(level, part)
         IN  IF IsMap(next)
             THEN \* currentLevel = currentLevel.get(part): the later parts
                  \* write into the Map that level holds at part
                  [level EXCEPT ![IndexOf(level, part)].value =
                      MapNode(WalkParts(next.children, parts, index + 1, type))]
             ELSE level  \* every later part returns at the instanceof test

\* the body of tree.forEach
InsertItem(map, item) == WalkParts(map, Split(item.path), 1, item.type)

RECURSIVE InsertItems(_, _, _)
InsertItems(map, items, i) ==
    IF i > Len(items) THEN map
    ELSE InsertItems(InsertItem(map, items[i]), items, i + 1)

\* The Map that generateStructure builds.  The generator holds this Map in
\* structureMap; repo-structure.tsx renders it at once (line 109).
GenerateStructure(items) == InsertItems(EmptyMap, items, 1)

----------------------------------------------------------------------------
(* buildStructureString *)

\* the box-drawing characters U+251C, U+2500 and U+2502, one character each
BoxVR == "U+251C"
BoxH == "U+2500"
BoxV == "U+2502"
Branch == <<BoxVR, BoxH, BoxH, " ">>
IndentUnit == <<BoxV, " ", " ", " ">>
TypeKey == <<"t", "y", "p", "e">>

RECURSIVE BuildStructureStringFrom(_, _, _)
BuildStructureStringFrom(map, prefix, i) ==
    IF i > Len(map) THEN <<>>
    ELSE LET key == map[i].key
             value == map[i].value
             own == IF key = TypeKey THEN <<>>
                    ELSE prefix \o Branch \o key \o <<NewLine>> \o
                         (IF IsMap(value)
                          THEN BuildStructureStringFrom(value.children,
                                                        prefix \o IndentUnit, 1)
                          ELSE <<>>)
         IN  own \o BuildStructureStringFrom(map, prefix, i + 1)

\* a renderer that prints a line for the root itself
BuildStructureStringRootLine(map, prefix) ==
    <<".", NewLine>> \o BuildStructureStringFrom(map, prefix, 1)

BuildStructureString(map, prefix) == BuildStructureStringFrom(map, prefix, 1)

----------------------------------------------------------------------------
(* filterStructure *)

\* key.toLowerCase().includes(term.toLowerCase())
NameIncludes(key, term) == Includes(ToLowerCase(key), ToLowerCase(term))

\* the test that keeps a file entry
KeepFile(key, term) == NameIncludes(key, term)

\* a test that keeps a directory only for its own name
KeepDirectoryByName(key, filteredSubMap, term) == NameIncludes(key, term)

\* a test that keeps a directory only for what survives in it
KeepDirectoryWithSurvivors(key, filteredSubMap, term) == Len(filteredSubMap) > 0

\* the test that keeps a directory entry
KeepDirectory(key, filteredSubMap, term) ==
    Len(filteredSubMap) > 0 \/ NameIncludes(key, term)

\* a kept directory that carries all the children it had
KeptDirectoryUnfiltered(value, filteredSubMap) == value

\* what filteredMap.set stores for a kept directory
KeptDirectory(value, filteredSubMap) == MapNode(filteredSubMap)

\* The for loop over map.entries(), from entry i on.  The result holds the
\* Map the loop iterates over as it is after the loop, and filteredMap.
RECURSIVE FilterLoop(_, _, _, _)
FilterLoop(map, term, i, filteredMap) ==
    IF i > Len(map)
    THEN [map |-> map, filteredMap |-> filteredMap]
    ELSE LET key == map[i].key
             value == map[i].value
         IN  IF IsFile(value)
             THEN FilterLoop(map, term, i + 1,
                             IF KeepFile(key, term)
                             THEN Set(filteredMap, key, value)
                             ELSE filteredMap)
             ELSE IF IsMap(value)
             THEN LET sub == FilterLoop(value.children, term, 1, EmptyMap)
                      after == [map EXCEPT ![i].value = MapNode(sub.map)]
                  IN  FilterLoop(after, term, i + 1,
                                 IF KeepDirectory(key, sub.filteredMap, term)
                                 THEN Set(filteredMap, key,
                                          KeptDirectory(value, sub.filteredMap))
                                 ELSE filteredMap)
             ELSE FilterLoop(map, term, i + 1, filteredMap)

\* a filter that removes the entries from the Map it was given and returns it
FilterStructureInPlace(map, term) ==
    LET kept == FilterLoop(map, term, 1, EmptyMap).filteredMap
    IN  [map |-> kept, filteredMap |-> kept]

\* one call of filterStructure: the argument after the call, and the result
FilterStructureCall(map, term) == FilterLoop(map, term, 1, EmptyMap)

FilterStructure(map, term) == FilterStructureCall(map, term).filteredMap

\* the component body: lines 172-173 run on every render
filteredStructureMap == FilterStructure(structureMap, searchTerm)
filteredStructure == BuildStructureString(filteredStructureMap, <<>>)

\* the Map held in structureMap once the component body has run
AfterRender(map, term) == FilterStructureCall(map, term).map

----------------------------------------------------------------------------
(* Inputs *)

SrcName == <<"S", "r", "c">>
Names == {SrcName, TypeKey}

Terms == {<<>>, <<"s", "R">>, <<"y", "p">>}

JoinPath(a, b) == a \o <<Slash>> \o b

TreePaths ==
    Names \cup {JoinPath(a, b) : a, b \in Names}
          \cup {JoinPath(JoinPath(SrcName, TypeKey), SrcName)}

\* the items of a git tree listing: only path and type are read
TreeItems == [path : TreePaths, type : {"blob", "tree"}]

MaxEntries == 3

Trees == UNION {[1..n -> TreeItems] : n \in 0..MaxEntries}

----------------------------------------------------------------------------
(* The builder, the filter and the renderer applied to every listing *)

NoValidation == [message |-> <<>>, isError |-> FALSE]
NoItem == [present |-> FALSE, value |-> <<>>]

InitComponent ==
    /\ structureMap = EmptyMap
    /\ searchTerm = <<>>
    /\ repoUrl = <<>>
    /\ loading = FALSE
    /\ validation = NoValidation
    /\ lastRepoUrl = NoItem
    /\ pending = {}
    /\ consoleError = "none"
    /\ lastAction = "init"
    /\ sinceClear = "not cleared"

InitTree ==
    /\ tree \in Trees
    /\ InitComponent

\* const map = generateStructure(tree); setStructureMap(map)
Build ==
    /\ lastAction = "init"
    /\ structureMap' = AfterRender(GenerateStructure(tree), searchTerm)
    /\ lastAction' = "generateStructure"
    /\ UNCHANGED <<tree, searchTerm, repoUrl, loading, validation,
                   lastRepoUrl, pending, consoleError, sinceClear>>

\* onChange of the search input: setSearchTerm(e.target.value)
SetSearchTerm(term) ==
    /\ term # searchTerm
    /\ searchTerm' = term
    /\ structureMap' = AfterRender(structureMap, term)
    /\ lastAction' = "setSearchTerm"
    /\ UNCHANGED <<tree, repoUrl, loading, validation, lastRepoUrl, pending,
                   consoleError, sinceClear>>

NextTree ==
    \/ Build
    \/ /\ lastAction # "init"
       /\ \E term \in Terms : SetSearchTerm(term)

SpecTree == InitTree /\ [][NextTree]_vars

Built == lastAction # "init"

----------------------------------------------------------------------------
(* validateUrl: /^https?:\/\/github\.com\/[\w-]+\/[\w.-]+\/?$/ *)

WordChars == Range(UpperCase) \cup Range(LowerCase) \cup Digits \cup {"_"}

Http == <<"h", "t", "t", "p">>
Host == <<":", "/", "/", "g", "i", "t", "h", "u", "b", ".", "c", "o", "m", "/">>

StartsWith(s, t) == Len(s) >= Len(t) /\ SubSeq(s, 1, Len(t)) = t
Drop(s, n) == SubSeq(s, n + 1, Len(s))

\* [\w.-]+\/?$
MatchesRepo(s) ==
    LET name == IF s # <<>> /\ s[Len(s)] = Slash
                THEN SubSeq(s, 1, Len(s) - 1)
                ELSE s
    IN  name # <<>> /\ \A i \in DOMAIN name : name[i] \in WordChars \cup {".", "-"}

\* [\w-]+\/ and the rest
MatchesOwnerRepo(s) ==
    \E i \in DOMAIN s :
        /\ s[i] = Slash
        /\ i > 1
        /\ \A j \in 1..(i - 1) : s[j] \in WordChars \cup {"-"}
        /\ MatchesRepo(Drop(s, i))

\* :\/\/github\.com\/ and the rest
MatchesHost(s) == StartsWith(s, Host) /\ MatchesOwnerRepo(Drop(s, Len(Host)))

ValidateUrl(url) ==
    /\ StartsWith(url, Http)
    /\ \/ MatchesHost(Drop(url, Len(Http)))
       \/ /\ StartsWith(Drop(url, Len(Http)), <<"s">>)
          /\ MatchesHost(Drop(url, Len(Http) + 1))

----------------------------------------------------------------------------
(* The component GitHubProjectStructure *)

Required == <<"GitHub URL is required">>
Invalid == <<"Enter a valid GitHub URL">>
Failed == <<"Failed to fetch repository structure">>
Message(text) == [message |-> text, isError |-> TRUE]

Item(value) == [present |-> TRUE, value |-> value]

Https == Http \o <<"s">>
RepoUrlValue == Https \o Host \o <<"o", "-", "1", "/", "r", ".", "j", "s">>
Urls == {<<>>,
         RepoUrlValue,
         Http \o Host \o <<"O", "_", "/", "r">> \o <<Slash>>,
         Https \o Host \o <<"o">>,
         Https \o Host \o <<"o", "/", "r", "/", "x">>}

\* listings the hosting API answers with
ApiTrees ==
    {<<>>,
     <<[path |-> SrcName, type |-> "tree"],
       [path |-> JoinPath(SrcName, TypeKey), type |-> "blob"]>>,
     <<[path |-> TypeKey, type |-> "blob"]>>}

\* what a rejected await throws
Causes == {"network error", "not found", "rate limit"}

Init ==
    /\ tree = <<>>
    /\ InitComponent

\* onChange of the URL input
HandleUrlChange(url) ==
    /\ url # repoUrl
    /\ repoUrl' = url
    /\ lastRepoUrl' = Item(url)
    /\ validation' = IF url = <<>> THEN Message(Required)
                     ELSE IF ~ValidateUrl(url) THEN Message(Invalid)
                     ELSE NoValidation
    /\ structureMap' = AfterRender(structureMap, searchTerm)
    /\ lastAction' = "handleUrlChange"
    /\ UNCHANGED <<tree, searchTerm, loading, pending, consoleError, sinceClear>>

\* the history once a fetch is started, once it delivered and once it failed
FetchStarted == IF sinceClear = "cleared" THEN "generated" ELSE sinceClear
FetchDelivered == IF sinceClear = "generated" THEN "not cleared" ELSE sinceClear
FetchFailed == IF sinceClear = "generated" THEN "cleared" ELSE sinceClear

\* a handler that starts the fetch whatever the URL is
HandleFetchStructureUnchecked(url) ==
    /\ loading' = TRUE
    /\ pending' = pending \cup {[url |-> url, await |-> "repos.get"]}
    /\ sinceClear' = FetchStarted
    /\ structureMap' = AfterRender(structureMap, searchTerm)
    /\ lastAction' = "handleFetchStructure"
    /\ UNCHANGED <<tree, searchTerm, repoUrl, validation, lastRepoUrl, consoleError>>

\* handleFetchStructure(url) up to its await
HandleFetchStructure(url) ==
    /\ IF url = <<>>
       THEN /\ validation' = Message(Required)
            /\ UNCHANGED <<loading, pending, sinceClear>>
       ELSE IF ~ValidateUrl(url)
       THEN /\ validation' = Message(Invalid)
            /\ UNCHANGED <<loading, pending, sinceClear>>
       ELSE /\ loading' = TRUE
            /\ pending' = pending \cup {[url |-> url, await |-> "repos.get"]}
            /\ sinceClear' = FetchStarted
            /\ UNCHANGED validation
    /\ structureMap' = AfterRender(structureMap, searchTerm)
    /\ lastAction' = "handleFetchStructure"
    /\ UNCHANGED <<tree, searchTerm, repoUrl, lastRepoUrl, consoleError>>

\* a Generate button that loading does not disable
GenerateWhileLoading ==
    /\ ~validation.isError
    /\ HandleFetchStructure(repoUrl)

\* a click on Generate: onClick={() => handleFetchStructure()}
Generate ==
    /\ ~(loading \/ validation.isError)
    /\ HandleFetchStructure(repoUrl)

\* fetchProjectStructure: repos.get answered, git.getTree requested
ReposGetResolved(call) ==
    /\ call.await = "repos.get"
    /\ pending' = (pending \ {call}) \cup {[call EXCEPT !.await = "git.getTree"]}
    /\ lastAction' = "repos.get"
    /\ UNCHANGED <<tree, structureMap, searchTerm, repoUrl, loading, validation,
                   lastRepoUrl, consoleError, sinceClear>>

\* the await returned the listing: the rest of the try block, then setLoading
FetchResolved(call, data) ==
    /\ call.await = "git.getTree"
    /\ tree' = data
    /\ structureMap' = AfterRender(GenerateStructure(data), searchTerm)
    /\ validation' = NoValidation
    /\ lastRepoUrl' = Item(call.url)
    /\ loading' = FALSE
    /\ pending' = pending \ {call}
    /\ lastAction' = "try"
    /\ sinceClear' = FetchDelivered
    /\ UNCHANGED <<searchTerm, repoUrl, consoleError>>

\* a catch block that also drops the held structure
FetchRejectedDropsStructure(call, cause) ==
    /\ consoleError' = cause
    /\ validation' = Message(Failed)
    /\ loading' = FALSE
    /\ pending' = pending \ {call}
    /\ structureMap' = AfterRender(EmptyMap, searchTerm)
    /\ lastAction' = "catch"
    /\ sinceClear' = FetchFailed
    /\ UNCHANGED <<tree, searchTerm, repoUrl, lastRepoUrl>>

\* the await threw: the catch block, then setLoading
FetchRejected(call, cause) ==
    /\ consoleError' = cause
    /\ validation' = Message(Failed)
    /\ loading' = FALSE
    /\ pending' = pending \ {call}
    /\ structureMap' = AfterRender(structureMap, searchTerm)
    /\ lastAction' = "catch"
    /\ sinceClear' = FetchFailed
    /\ UNCHANGED <<tree, searchTerm, repoUrl, lastRepoUrl>>

\* a clear that empties the input only
HandleClearInputKeepsStructure ==
    /\ repoUrl # <<>>
    /\ repoUrl' = <<>>
    /\ lastRepoUrl' = NoItem
    /\ structureMap' = AfterRender(structureMap, searchTerm)
    /\ lastAction' = "handleClearInput"
    /\ sinceClear' = "cleared"
    /\ UNCHANGED <<tree, searchTerm, loading, validation, pending, consoleError>>

\* a click on the clear button, which is rendered when repoUrl is not empty
HandleClearInput ==
    /\ repoUrl # <<>>
    /\ repoUrl' = <<>>
    /\ lastRepoUrl' = NoItem
    /\ structureMap' = AfterRender(EmptyMap, searchTerm)
    /\ lastAction' = "handleClearInput"
    /\ sinceClear' = "cleared"
    /\ UNCHANGED <<tree, searchTerm, loading, validation, pending, consoleError>>

\* the page is loaded again: every useState starts over, the calls of the old
\* page are gone, and the effect restores the saved URL
Mount ==
    /\ lastAction # "init"
    /\ tree' = <<>>
    /\ structureMap' = AfterRender(EmptyMap, <<>>)
    /\ searchTerm' = <<>>
    /\ repoUrl' = IF lastRepoUrl.present /\ lastRepoUrl.value # <<>>
                  THEN lastRepoUrl.value
                  ELSE <<>>
    /\ loading' = FALSE
    /\ validation' = NoValidation
    /\ pending' = {}
    /\ consoleError' = "none"
    /\ lastAction' = "useEffect"
    /\ sinceClear' = "not cleared"
    /\ UNCHANGED lastRepoUrl

Next ==
    \/ \E url \in Urls : HandleUrlChange(url)
    \/ Generate
    \/ \E call \in pending : ReposGetResolved(call)
    \/ \E call \in pending, data \in ApiTrees : FetchResolved(call, data)
    \/ \E call \in pending, cause \in Causes : FetchRejected(call, cause)
    \/ HandleClearInput
    \/ \E term \in Terms : SetSearchTerm(term)
    \/ Mount

Spec == Init /\ [][Next]_vars

----------------------------------------------------------------------------
(* What the claims speak of: the nodes of a structure and the paths of items *)

RECURSIVE JoinSegs(_)
JoinSegs(segs) ==
    IF Len(segs) = 1 THEN segs[1]
    ELSE JoinPath(JoinSegs(SubSeq(segs, 1, Len(segs) - 1)), segs[Len(segs)])

\* every node of a structure: the names from the root down to it, and its kind
RECURSIVE NodesOf(_, _)
NodesOf(map, at) ==
    UNION {{[segs |-> Append(at, map[i].key), type |-> map[i].value.type]}
           \cup (IF IsMap(map[i].value)
                 THEN NodesOf(map[i].value.children, Append(at, map[i].key))
                 ELSE {}) : i \in DOMAIN map}

Nodes(map) == NodesOf(map, <<>>)

\* "map", "file" or "absent": what a structure holds at a path
TypeAt(map, path) ==
    IF \E n \in Nodes(map) : JoinSegs(n.segs) = path
    THEN (CHOOSE n \in Nodes(map) : JoinSegs(n.segs) = path).type
    ELSE "absent"

\* the proper prefixes of a path that end before a '/'
Ancestors(path) == {SubSeq(path, 1, i - 1) : i \in {k \in DOMAIN path : path[k] = Slash}}

\* q is p or an ancestor of p
IsPrefixPath(q, p) == q = p \/ q \in Ancestors(p)

\* the names of every directory's children, in stored order (the root is at <<>>)
RECURSIVE ChildListsOf(_, _)
ChildListsOf(map, at) ==
    {[at |-> at, keys |-> [i \in DOMAIN map |-> map[i].key]]}
    \cup UNION {IF IsMap(map[i].value)
                THEN ChildListsOf(map[i].value.children, Append(at, map[i].key))
                ELSE {} : i \in DOMAIN map}

\* the position in the input of the first item whose path is at or under path
FirstIndex(path) ==
    LET at == {i \in DOMAIN tree : IsPrefixPath(path, tree[i].path)}
    IN  IF at = {} THEN Len(tree) + 1
        ELSE CHOOSE i \in at : \A j \in at : i <= j

\* the file items whose path is a prefix of path
FilesAbove(path) ==
    {tree[j].path : j \in {k \in DOMAIN tree :
        tree[k].type = "blob" /\ IsPrefixPath(tree[k].path, path)}}

Shortest(paths) == CHOOSE p \in paths : \A q \in paths : Len(p) <= Len(q)

----------------------------------------------------------------------------
(* C1 *)

----------------------------------------------------------------------------
(* C2 *)

\* C2: when an item lists p as a file and the last item of the listing has a
\* path beneath p, then p is a directory and the later path is in it.
C2_LaterEntryWins ==
    Built => \A i \in DOMAIN tree :
                 LET last == tree[Len(tree)]
                 IN  (tree[i].type = "blob" /\ tree[i].path \in Ancestors(last.path))
                     => /\ TypeAt(structureMap, tree[i].path) = "map"
                        /\ TypeAt(structureMap, last.path) # "absent"

----------------------------------------------------------------------------
(* C3 *)

\* C3: the children of every directory are in the order in which the input
\* first named them, also when a key was overwritten.
C3_FirstInsertionOrder ==
    Built => \A d \in ChildListsOf(structureMap, <<>>) :
                 \A a, b \in DOMAIN d.keys :
                     a < b => FirstIndex(JoinSegs(Append(d.at, d.keys[a])))
                              < FirstIndex(JoinSegs(Append(d.at, d.keys[b])))

\* a directory listed first, a sibling, then the directory's key overwritten by
\* a file: the key is still the first child
C3_Witness ==
    /\ Built
    /\ \E i, j, k \in DOMAIN tree :
          /\ i < j /\ j < k
          /\ tree[i].path \in Names /\ tree[i].type = "tree"
          /\ tree[j].path \in Names /\ tree[j].path # tree[i].path
          /\ tree[k].path = tree[i].path /\ tree[k].type = "blob"
          /\ Len(structureMap) = 2
          /\ structureMap[1] = [key |-> tree[i].path, value |-> FileNode]

----------------------------------------------------------------------------
(* C4 *)

RECURSIVE Repeat(_, _)
Repeat(s, n) == IF n = 0 THEN <<>> ELSE s \o Repeat(s, n - 1)

\* the nodes of a structure in pre-order, each with its depth
RECURSIVE PreOrderFrom(_, _, _)
PreOrderFrom(map, depth, i) ==
    IF i > Len(map) THEN <<>>
    ELSE <<[name |-> map[i].key, depth |-> depth]>>
         \o (IF IsMap(map[i].value)
             THEN PreOrderFrom(map[i].value.children, depth + 1, 1)
             ELSE <<>>)
         \o PreOrderFrom(map, depth, i + 1)

RECURSIVE LinesOf(_, _)
LinesOf(nodes, i) ==
    IF i > Len(nodes) THEN <<>>
    ELSE Repeat(IndentUnit, nodes[i].depth) \o Branch \o nodes[i].name
         \o <<NewLine>> \o LinesOf(nodes, i + 1)

\* C4: the rendering is one line per node of the structure in pre-order,
\* whatever the node's name: the indent unit once per level of depth, the
\* branch, the name, a newline.
C4_OneLinePerNode ==
    Built => BuildStructureString(structureMap, <<>>)
             = LinesOf(PreOrderFrom(structureMap, 0, 1), 1)

----------------------------------------------------------------------------
(* C5 *)

\* C5: the rendering of the structure built from no items is the empty string,
\* and so is the rendering of a filtered structure in which no node survives.
C5_EmptyRootRendersEmpty ==
    /\ (Built /\ tree = <<>>) => BuildStructureString(structureMap, <<>>) = <<>>
    /\ filteredStructureMap = EmptyMap => filteredStructure = <<>>

\* a structure with nodes, none of which survives the search term
C5_Witness ==
    /\ Built
    /\ structureMap # EmptyMap
    /\ searchTerm # <<>>
    /\ filteredStructureMap = EmptyMap
    /\ filteredStructure = <<>>

----------------------------------------------------------------------------
(* C6 and C7 *)

NameOf(n) == n.segs[Len(n.segs)]
Matches(n) == NameIncludes(NameOf(n), searchTerm)
IsUnder(m, n) ==
    Len(m.segs) > Len(n.segs) /\ SubSeq(m.segs, 1, Len(n.segs)) = n.segs
AncestorMatches(n) ==
    \E k \in 1..(Len(n.segs) - 1) : NameIncludes(n.segs[k], searchTerm)

\* C6: the filtered structure holds exactly the leaves whose own name contains
\* the term and the directories whose own name contains the term or that have
\* a surviving descendant.
C6_FilterKeepsExactly ==
    Built =>
        LET S == Nodes(filteredStructureMap)
        IN  S = {n \in Nodes(structureMap) :
                    \/ n.type = "file" /\ Matches(n)
                    \/ n.type = "map"
                       /\ (Matches(n) \/ \E m \in S : IsUnder(m, n))}

\* a leaf survives by its name, a directory survives by a descendant only, and
\* a directory that does not match and has no surviving descendant is omitted
C6_Witness ==
    /\ Built
    /\ LET S == Nodes(filteredStructureMap)
           T == Nodes(structureMap)
       IN  /\ \E n \in S : n.type = "file"
           /\ \E n \in S : n.type = "map" /\ ~Matches(n)
           /\ \E n \in T \ S : n.type = "map"
                               /\ \E m \in T : IsUnder(m, n)

\* C7 as stated: a leaf is removed exactly when neither its own name nor the
\* name of any of its ancestor directories contains the term.
C7_LeafKeptUnderMatchingDirectory ==
    Built => \A n \in Nodes(structureMap) :
                 n.type = "file" =>
                     (n \notin Nodes(filteredStructureMap)
                      <=> ~(Matches(n) \/ AncestorMatches(n)))

\* C7: a leaf is removed exactly when its own name does not contain the term,
\* also when it lies under a directory whose name contains the term.
C7_LeafKeptByOwnName ==
    Built => \A n \in Nodes(structureMap) :
                 n.type = "file" =>
                     (n \notin Nodes(filteredStructureMap) <=> ~Matches(n))

\* a leaf whose name does not match is removed from under a kept directory
\* whose name matches
C7_Witness ==
    /\ Built
    /\ \E n \in Nodes(structureMap) :
          /\ n.type = "file"
          /\ ~Matches(n)
          /\ AncestorMatches(n)
          /\ n \notin Nodes(filteredStructureMap)
          /\ \E d \in Nodes(filteredStructureMap) : IsUnder(n, d)

----------------------------------------------------------------------------
(* C8 *)

\* C8: filterStructure leaves the Map it is given as it was, for every term,
\* so the held structureMap stays the structure that was built, whatever the
\* search terms entered since.
C8_FilterLeavesInput ==
    Built => /\ structureMap = GenerateStructure(tree)
             /\ \A term \in Terms :
                    FilterStructureCall(structureMap, term).map = structureMap

\* a search term that removes nodes has been entered over a structure
C8_Witness ==
    /\ lastAction = "setSearchTerm"
    /\ structureMap # EmptyMap
    /\ filteredStructureMap # structureMap
    /\ structureMap = GenerateStructure(tree)

----------------------------------------------------------------------------
(* C9 *)

\* C9: whatever made the fetch fail, the step that handles the failure leaves
\* validation at 'Failed to fetch repository structure' with isError, loading
\* false and the held structureMap as it was, ends the failed call and starts
\* no other.
C9_FetchFailure ==
    [][(lastAction' = "catch" /\ vars' # vars)
       => /\ validation' = [message |-> Failed, isError |-> TRUE]
          /\ loading' = FALSE
          /\ structureMap' = structureMap
          /\ pending' \subseteq pending
          /\ pending' # pending]_vars

\* a fetch failed while a structure from an earlier fetch was held
C9_Witness ==
    /\ lastAction = "catch"
    /\ consoleError \in Causes
    /\ structureMap # EmptyMap
    /\ validation = [message |-> Failed, isError |-> TRUE]
    /\ loading = FALSE
    /\ pending = {}

----------------------------------------------------------------------------
(* C10 *)

\* C10: every fetch in flight was started with a URL that is not empty and
\* passes validateUrl, and a Generate with an empty or invalid URL sets a
\* validation error, starts no fetch and leaves loading and the held structure
\* as they were.
C10_FetchOnlyValidUrl ==
    /\ [](\A call \in pending : call.url # <<>> /\ ValidateUrl(call.url))
    /\ [][(/\ lastAction' = "handleFetchStructure"
           /\ vars' # vars
           /\ (repoUrl = <<>> \/ ~ValidateUrl(repoUrl)))
          => /\ validation'.isError
             /\ pending' = pending
             /\ loading' = loading
             /\ structureMap' = structureMap]_vars

\* Generate was clicked on the URL that a clear had emptied after a fetch had
\* delivered a structure
C10_Witness ==
    /\ lastAction = "handleFetchStructure"
    /\ repoUrl = <<>>
    /\ tree # <<>>
    /\ structureMap = EmptyMap
    /\ validation = [message |-> Required, isError |-> TRUE]
    /\ loading = FALSE
    /\ pending = {}

----------------------------------------------------------------------------
(* C12 *)

\* the structure before and after the k-th item of the listing
BeforeItem(k) == InsertItems(EmptyMap, SubSeq(tree, 1, k - 1), 1)
AfterItem(k) == InsertItem(BeforeItem(k), tree[k])

\* the nodes of a structure strictly under a path, with their kinds
Under(map, path) ==
    {n \in Nodes(map) : path \in Ancestors(JoinSegs(n.segs))}

\* forEach reaches the final segment of the k-th item: no ancestor is a leaf
ReachesFinalSegment(k) ==
    \A a \in Ancestors(tree[k].path) : TypeAt(BeforeItem(k), a) # "file"

\* C12: on the final segment a file item makes the key a leaf, whatever was
\* there; any other item makes sure the key is a directory: an empty one when
\* the key was absent, the directory that was there, children included,
\* otherwise.
C12_FinalSegment ==
    Built => \A k \in DOMAIN tree :
        ReachesFinalSegment(k) =>
            LET path == tree[k].path
                was == TypeAt(BeforeItem(k), path)
            IN  IF tree[k].type = "blob"
                THEN /\ TypeAt(AfterItem(k), path) = "file"
                     /\ Under(AfterItem(k), path) = {}
                ELSE /\ TypeAt(AfterItem(k), path) = "map"
                     /\ was = "absent" => Under(AfterItem(k), path) = {}
                     /\ was = "map" => Under(AfterItem(k), path)
                                       = Under(BeforeItem(k), path)

----------------------------------------------------------------------------
(* C14 *)

\* C14: filtering with the empty term gives back the structure: the same keys
\* in the same order with the same kinds at every level, directories without
\* children included.
C14_EmptyTermIsIdentity ==
    Built => FilterStructure(structureMap, <<>>) = structureMap

\* the empty term over a structure that has a directory without children
C14_Witness ==
    /\ Built
    /\ searchTerm = <<>>
    /\ \E n \in Nodes(structureMap) :
          n.type = "map" /\ Under(structureMap, JoinSegs(n.segs)) = {}
    /\ \E n \in Nodes(structureMap) : n.type = "file"
    /\ filteredStructureMap = structureMap

----------------------------------------------------------------------------
(* C15 *)

\* the position of a key among the children of the directory at a path
PositionIn(map, at, key) ==
    LET d == CHOOSE c \in ChildListsOf(map, <<>>) : c.at = at
    IN  CHOOSE i \in DOMAIN d.keys : d.keys[i] = key

\* C15: filtering the filtered structure again with the same term changes
\* nothing, and the children that survive in a directory are in the order they
\* had in the structure.
C15_IdempotentInOrder ==
    Built =>
        /\ FilterStructure(filteredStructureMap, searchTerm) = filteredStructureMap
        /\ \A d \in ChildListsOf(filteredStructureMap, <<>>) :
               \A a, b \in DOMAIN d.keys :
                   a < b => PositionIn(structureMap, d.at, d.keys[a])
                            < PositionIn(structureMap, d.at, d.keys[b])

\* the filter removed nodes and two children survive in one directory, one of
\* them a directory that lost a child
C15_Witness ==
    /\ Built
    /\ searchTerm # <<>>
    /\ filteredStructureMap # structureMap
    /\ \E d \in ChildListsOf(filteredStructureMap, <<>>) :
          /\ Len(d.keys) >= 2
          /\ \E i \in DOMAIN d.keys :
                Under(filteredStructureMap, JoinSegs(Append(d.at, d.keys[i])))
                # Under(structureMap, JoinSegs(Append(d.at, d.keys[i])))

----------------------------------------------------------------------------
(* C11 *)

----------------------------------------------------------------------------
(* C13 *)

\* C13: at most one fetch is in flight and loading is true exactly while one
\* is; handleFetchStructure runs only while loading and validation.isError are
\* false, a started fetch sets loading, and the step in which a fetch delivers
\* or fails sets loading back to false.
C13_OneFetchAtATime ==
    /\ [](Cardinality(pending) <= 1 /\ (loading <=> pending # {}))
    /\ [][(lastAction' = "handleFetchStructure" /\ vars' # vars)
          => /\ ~loading /\ ~validation.isError
             /\ pending' # pending => loading']_vars
    /\ [][(lastAction' \in {"try", "catch"} /\ vars' # vars)
          => ~loading' /\ pending' = {}]_vars

\* a fetch is in flight and another valid URL has been typed: loading alone
\* keeps Generate disabled
C13_Witness ==
    /\ loading
    /\ Cardinality(pending) = 1
    /\ lastAction = "handleUrlChange"
    /\ ~validation.isError
    /\ \A call \in pending : call.url # repoUrl

====
